---- MODULE Spec2Model ----
(***************************************************************************)
(* Model of scripts/proxy_manager.py (ProbeManager.run and the candidate   *)
(* search/promotion it drives) together with the helpers of                *)
(* scripts/modules (alert policy, state table).                            *)
(*                                                                         *)
(* One run of the program walks the configured probes in order.  Each      *)
(* step of ProbeManager.run that talks to a collaborator (browser probe,   *)
(* xray control plane, notifier) is one action; `pc` is the position of    *)
(* the single thread of control inside run / _recover_with_candidates /    *)
(* _promote_outbound.  The xray rule table outlives a run of the program:  *)
(* a run starts on the table an earlier run left behind (PriorTables).     *)
(*                                                                         *)
(* The helpers of scripts/modules that run() does not call have their own  *)
(* specifications over the same variables: StateSpec drives a StateManager *)
(* (construction from the state file, update, clock, process exit),        *)
(* ClassifySpec applies PlaywrightProbe._check_quality to an expectation   *)
(* and a page, SpecCooldown is a run that finds a state file, MatchSpec    *)
(* applies _match_dict to one tier, ProbeSpec runs the check of both       *)
(* PlaywrightProbe classes against the events of a browser, ConfigSpec     *)
(* applies the helpers of modules/config.py, and RunsSpec repeats runs     *)
(* against the suboptimal cooldown of the StateManager.                    *)
(***************************************************************************)
EXTENDS Integers, Sequences, FiniteSets, TLC

\* ---------------------------------------------------------------- bounds
NumProbes == 2          \* number of configured probes
MaxCands == 2           \* longest resolved candidate list of a probe
MaxFaults == 1          \* number of xray commands that exit non-zero

\* ------------------------------------------------------- names and config
ProbeNames == <<"p1", "p2", "p3", "p4">>
OutboundNames == <<"A", "B", "C", "D", "E">>
None == "none"

ProbeIdx == 1..NumProbes

\* probe.name of the i-th entry of config.probes
ProbeName(i) == ProbeNames[i]

\* the three page qualities a probe through some egress path can meet:
\* "optimal" the primary expectation is met, "suboptimal" it is not met but
\* the fallback expectation would be, "blocked" neither is met
Qualities == {"optimal", "suboptimal", "blocked"}

\* exit_code while main() has not returned (its return values are 0, 1, 2 and 3)
NoExit == -1

VARIABLES
    ncand,      \* length of probe.outbound_plan.priority(defaults) of the current probe
    dry_run,    \* XrayAPIClient._dry_run
    pi,         \* index in config.probes of the probe being processed
    pc,         \* position inside ProbeManager.run
    ci,         \* index of the candidate being tried in _recover_with_candidates
    rules,      \* routing rules of the xray process, in match order
    prodObs,    \* quality met by the production check of the current probe
    calls,      \* collaborator calls made for the current probe, in order
    search,     \* phase of the _recover_with_candidates call for the current probe
    result,     \* value returned by _recover_with_candidates for the current probe
    alerted,    \* which alert run() sent for the current probe
    prodAtStart,\* production rules when the current probe's cycle started
    checked,    \* probes whose production check was executed in this run
    states,     \* StateManager._states (modules/state.py); proxy_manager.py never
                \* constructs a StateManager, no step of run() writes it
    faults,     \* number of xray commands that have failed so far
    exit_code,  \* return value of main()
    order,      \* keys of StateManager._states in insertion order (a dict keeps it)
    file,       \* content of the state file (AppConfig.state_file)
    now,        \* datetime.now(), in ticks of the wall clock
    last_op,    \* the last call made on the StateManager, with what it was given
    input,      \* arguments handed to the helper function under study
    output      \* what the helper function returned for them

vars == <<ncand, dry_run, pi, pc, ci, rules, prodObs, calls, search, result,
          alerted, prodAtStart, checked, states, faults, exit_code,
          order, file, now, last_op, input, output>>

\* OutboundPlan.priority returns a duplicate-free list; the list of the current
\* probe is a prefix of OutboundNames
Candidates == SubSeq(OutboundNames, 1, ncand)

\* prod_tag = f"probe-{probe.name}-prod"
prod_tag(name) == <<"probe", name, "prod">>

\* test_tag = f"probe-{probe.name}-test"; test_tag_shared is the variant in
\* which test rules live in the production tag namespace
test_tag_shared(name) == prod_tag(name)
test_tag(name) == <<"probe", name, "test">>
NoTag == <<>>

\* test_rule of _recover_with_candidates: rule_template plus
\* {"ruleTag": test_tag, "outboundTag": outbound}; the template carries inboundTag
test_rule(name, outbound) ==
    [ruleTag |-> test_tag(name), tag |-> NoTag, outboundTag |-> outbound, inboundTag |-> TRUE]

\* new_rule of _promote_outbound: the template without inboundTag plus
\* {"tag": prod_tag, "outboundTag": outbound}; the key is "tag", there is no "ruleTag"
new_rule(name, outbound) ==
    [ruleTag |-> NoTag, tag |-> prod_tag(name), outboundTag |-> outbound, inboundTag |-> FALSE]

\* effect of `xray api rmrules <tag>` on the rule table: rules are identified by ruleTag
rmrules(rs, t) == SelectSeq(rs, LAMBDA r : r.ruleTag # t)

\* effect of `xray api adrules --append <file>`
adrules(rs, rule) == Append(rs, rule)

\* XrayAPIClient._run: in dry-run nothing is executed and the call succeeds,
\* otherwise the command may exit non-zero (XrayAPIError); at most MaxFaults
\* commands fail in one run
XrayOutcomes == IF dry_run \/ faults >= MaxFaults THEN {TRUE} ELSE BOOLEAN

\* bookkeeping of the failed commands
Faults(ok) == IF ok THEN faults ELSE faults + 1

\* XrayAPIClient.remove_routing_rule
remove_routing_rule(rs, t, ok) == IF ok /\ ~dry_run THEN rmrules(rs, t) ELSE rs

\* XrayAPIClient.add_routing_rule
add_routing_rule(rs, rule, ok) == IF ok /\ ~dry_run THEN adrules(rs, rule) ELSE rs

\* PlaywrightProbe.check of proxy_manager.py: ok iff _validate_expectations
\* finds the (primary) expectation met; there is no fallback tier.
\* OutcomeOk_accepts_suboptimal is the variant with the ok of modules/probe.py,
\* true also when only the fallback expectation is met
OutcomeOk_accepts_suboptimal(q) == q # "blocked"
OutcomeOk(q) == q = "optimal"

\* rules that are not test rules
IsTestRule(r) == Len(r.ruleTag) = 3 /\ r.ruleTag[3] = "test"
ProdRules(rs) == SelectSeq(rs, LAMBDA r : ~IsTestRule(r))

Call(op, scope, cand, ok, q) == [op |-> op, scope |-> scope, cand |-> cand, ok |-> ok, q |-> q]

\* config.py should_send_alert with QUALITY_LEVELS; QUALITY_LEVELS_swapped is
\* the table with suboptimal ranked above blocked
QUALITY_LEVELS_swapped(q) ==
    CASE q = "optimal" -> 0
      [] q = "suboptimal" -> 2
      [] q = "blocked" -> 1
      [] OTHER -> -1
QUALITY_LEVELS(q) ==
    CASE q = "optimal" -> 0
      [] q = "suboptimal" -> 1
      [] q = "blocked" -> 2
      [] OTHER -> -1

\* should_send_alert_same_default is the variant with one default, 1, for both lookups
should_send_alert_same_default(current_quality, alert_level) ==
    LET current_level == IF current_quality \in Qualities THEN QUALITY_LEVELS(current_quality) ELSE 1
        threshold_level == IF alert_level \in Qualities THEN QUALITY_LEVELS(alert_level) ELSE 1
    IN current_level >= threshold_level
\* should_send_alert_strict is the variant that compares with >
should_send_alert_strict(current_quality, alert_level) ==
    LET current_level == IF current_quality \in Qualities THEN QUALITY_LEVELS(current_quality) ELSE 0
        threshold_level == IF alert_level \in Qualities THEN QUALITY_LEVELS(alert_level) ELSE 1
    IN current_level > threshold_level
should_send_alert(current_quality, alert_level) ==
    LET current_level == IF current_quality \in Qualities THEN QUALITY_LEVELS(current_quality) ELSE 0
        threshold_level == IF alert_level \in Qualities THEN QUALITY_LEVELS(alert_level) ELSE 1
    IN current_level >= threshold_level

\* ------------------------------------------------------ modules/state.py
MaxTime == 2            \* last tick of the wall clock
MaxUpdates == 2         \* number of StateManager.update calls in one behaviour

\* the wall clock of the model ticks every half hour
SecondsPerTick == 30 * 60

\* datetime.isoformat() of the clock value t: the text of tick t
IsoText == <<"T00:00", "T00:30", "T01:00", "T01:30", "T02:00", "T02:30", "T03:00", "T03:30">>
isoformat(t) == IsoText[t + 1]

\* datetime.fromisoformat(s): raises ValueError unless s is the text of a tick
iso_parses(s) == \E k \in 1..Len(IsoText) : IsoText[k] = s
fromisoformat(s) == (CHOOSE k \in 1..Len(IsoText) : IsoText[k] = s) - 1

\* dataclass ProbeState
ProbeState(probe_name, quality, outbound, last_check_time, reason) ==
    [probe_name |-> probe_name, quality |-> quality, outbound |-> outbound,
     last_check_time |-> last_check_time, reason |-> reason]

\* the None of Optional[ProbeState]
NoState == [absent |-> TRUE]

\* StateManager.get on the table self
get(self, probe_name) == IF probe_name \in DOMAIN self THEN self[probe_name] ELSE NoState

\* `hours_elapsed < skip_hours` with hours_elapsed = total_seconds / 3600 (true
\* division); hours_elapsed_le is the variant that also skips at the boundary
hours_elapsed_le(total_seconds, skip_hours) == total_seconds <= skip_hours * 3600
hours_elapsed_lt(total_seconds, skip_hours) == total_seconds < skip_hours * 3600

\* StateManager.should_skip_suboptimal on the table self at clock value clock
should_skip_suboptimal(self, clock, probe_name, skip_hours) ==
    LET state == get(self, probe_name)
    IN IF state = NoState \/ state.quality # "suboptimal" THEN FALSE
       ELSE IF state.last_check_time = None \/ state.last_check_time = "" THEN FALSE
       ELSE IF ~iso_parses(state.last_check_time) THEN FALSE
       ELSE hours_elapsed_lt((clock - fromisoformat(state.last_check_time)) * SecondsPerTick,
                             skip_hours)

\* self._states[k] = v on a dict: a new key goes to the end, an old key keeps its place;
\* dict_set_merge is the variant that keeps the stored outbound when the new one is None
dict_set_merge(self, k, v) ==
    [x \in (DOMAIN self) \cup {k} |->
        IF x # k THEN self[x]
        ELSE IF k \in DOMAIN self /\ v.outbound = None
               THEN [v EXCEPT !.outbound = self[k].outbound]
               ELSE v]
dict_set(self, k, v) == [x \in (DOMAIN self) \cup {k} |-> IF x = k THEN v ELSE self[x]]
dict_keys(keys, k) == IF \E i \in 1..Len(keys) : keys[i] = k THEN keys ELSE Append(keys, k)

\* json.dumps / json.loads of a field value: None is written as null, a str as a string
JNull == <<"null">>
json_dumps(v) == IF v = None THEN JNull ELSE <<"string", v>>
json_loads(j) == IF j = JNull THEN None ELSE j[2]

\* the dict written by save() for one ProbeState; state_dict_without_reason is
\* the variant that leaves the reason out
state_dict_without_reason(state) ==
    [probe_name |-> json_dumps(state.probe_name),
     quality |-> json_dumps(state.quality),
     outbound |-> json_dumps(state.outbound),
     last_check_time |-> json_dumps(state.last_check_time)]
state_dict(state) ==
    [probe_name |-> json_dumps(state.probe_name),
     quality |-> json_dumps(state.quality),
     outbound |-> json_dumps(state.outbound),
     last_check_time |-> json_dumps(state.last_check_time),
     reason |-> json_dumps(state.reason)]

\* content of the state file: absent, text that is no JSON object, or the
\* members of a JSON object in file order
NoFile == [exists |-> FALSE, json |-> FALSE, items |-> <<>>]
GarbageFile == [exists |-> TRUE, json |-> FALSE, items |-> <<>>]
JsonFile(items) == [exists |-> TRUE, json |-> TRUE, items |-> items]

\* save(): an exception of mkdir / open is caught and the file stays as it was
\* ("refused"); an exception in the middle of write_text leaves a truncated
\* file ("torn")
WriteOutcomes == {"written", "refused", "torn"}

\* save_last_only is the variant that writes the newest record only
save_last_only(self, keys, old, w) ==
    CASE w = "written" -> JsonFile(<< <<keys[Len(keys)], state_dict(self[keys[Len(keys)]])>> >>)
      [] w = "refused" -> old
      [] w = "torn" -> GarbageFile
save(self, keys, old, w) ==
    CASE w = "written" -> JsonFile([i \in 1..Len(keys) |-> <<keys[i], state_dict(self[keys[i]])>>])
      [] w = "refused" -> old
      [] w = "torn" -> GarbageFile

\* does save() let an exception out? `except Exception` (lines 55-56) catches
\* whatever mkdir, json.dumps and write_text raise; save_raises_uncaught is the
\* variant without the handler
save_raises_uncaught(w) == w # "written"
save_raises(w) == FALSE

\* ProbeState(**state_dict): TypeError on an unknown keyword or a missing
\* probe_name / quality; the other fields default to None
ProbeStateFields == {"probe_name", "quality", "outbound", "last_check_time", "reason"}
ProbeState_accepts(d) ==
    /\ DOMAIN d \subseteq ProbeStateFields
    /\ {"probe_name", "quality"} \subseteq DOMAIN d
kwarg(d, k) == IF k \in DOMAIN d THEN json_loads(d[k]) ELSE None
ProbeState_of(d) ==
    ProbeState(kwarg(d, "probe_name"), kwarg(d, "quality"), kwarg(d, "outbound"),
               kwarg(d, "last_check_time"), kwarg(d, "reason"))

\* the loop of _load over data.items(): records are put into self._states one
\* by one, the exception of a malformed record ends the loop and is caught
\* after it, what was loaded before it stays
RECURSIVE load_items(_, _)
load_items(items, acc) ==
    IF items = <<>> THEN acc
    ELSE LET k == Head(items)[1]
             d == Head(items)[2]
         IN IF ProbeState_accepts(d)
              THEN load_items(Tail(items),
                              [states |-> dict_set(acc.states, k, ProbeState_of(d)),
                               order |-> dict_keys(acc.order, k)])
              ELSE acc

\* StateManager.__init__ with _load
load(f) ==
    IF ~f.exists \/ ~f.json THEN [states |-> <<>>, order |-> <<>>]
    ELSE load_items(f.items, [states |-> <<>>, order |-> <<>>])

\* the call last made on the StateManager
NoOp == [kind |-> "none", seq |-> 0, probe_name |-> None, quality |-> None,
         outbound |-> None, reason |-> None, t |-> 0, w |-> None,
         before |-> <<>>, latest |-> <<>>]

\* the production rule an operator configures for a probe in xray: it carries
\* the tag that `rmrules <prod_tag>` of _promote_outbound looks for, as ruleTag
configured_rule(name, outbound) ==
    [ruleTag |-> prod_tag(name), tag |-> NoTag, outboundTag |-> outbound, inboundTag |-> FALSE]

\* rule tables the program starts with: nothing, the production rule of an
\* earlier promotion (_promote_outbound), the test rule of a search that ended
\* in the XrayAPIError of a promotion, or the production rule of the xray
\* configuration
PriorTables ==
    { <<>>,
      <<new_rule(ProbeName(1), OutboundNames[2])>>,
      <<test_rule(ProbeName(1), OutboundNames[1])>>,
      <<configured_rule(ProbeName(1), OutboundNames[2])>> }

\* ------------------------------------------------------------------ Init
Init ==
    /\ ncand = 0
    /\ dry_run \in BOOLEAN
    /\ pi = 1
    /\ pc = "check_prod"
    /\ ci = 0
    /\ rules \in PriorTables
    /\ prodObs = None
    /\ calls = <<>>
    /\ search = "no"
    /\ result = None
    /\ alerted = None
    /\ prodAtStart = <<>>
    /\ checked = {}
    /\ states = <<>>
    /\ faults = 0
    /\ exit_code = NoExit
    /\ order = <<>>
    /\ file = NoFile
    /\ now = 0
    /\ last_op = NoOp
    /\ input = None
    /\ output = None

\* ---------------------------------------------------------------- actions
\* what no step of ProbeManager.run assigns: the configuration, the state
\* table and state file of modules/state.py, the clock, the helper under study
cfg == <<dry_run, states, order, file, now, last_op, input, output>>

\* the for loop of _recover_with_candidates moves to the next candidate, or
\* falls out of the loop to the clean-up after it
\* NextCandidate_retry is the variant that takes a candidate again, once
NextCandidate_retry(i, n) ==
    IF i < n /\ Len(calls) < 6 THEN [pc |-> "s_remove", ci |-> i]
    ELSE IF i < n THEN [pc |-> "s_remove", ci |-> i + 1]
    ELSE [pc |-> "s_cleanup_exhausted", ci |-> i]
NextCandidate(i, n) ==
    IF i < n THEN [pc |-> "s_remove", ci |-> i + 1]
             ELSE [pc |-> "s_cleanup_exhausted", ci |-> i]

\* `continue` after a failed add_routing_rule (lines 374-376);
\* OnInstallFailure_abort is the variant that leaves the loop instead
OnInstallFailure_abort(i, n) == [pc |-> "s_cleanup_exhausted", ci |-> i]
\* OnInstallFailure_probe is the variant that probes the candidate all the same
OnInstallFailure_probe(i, n) == [pc |-> "s_probe", ci |-> i]
OnInstallFailure(i, n) == NextCandidate(i, n)

\* run(): outcome = check(probe, proxy.prod); ok -> continue with the next
\* probe, otherwise enter _recover_with_candidates (no candidates: return None)
CheckProd ==
    /\ pc = "check_prod"
    /\ \E q \in Qualities, n \in 0..MaxCands :
        /\ prodObs' = q
        /\ ncand' = n
        /\ calls' = <<Call("probe", "prod", None, OutcomeOk(q), q)>>
        /\ IF OutcomeOk(q)
             THEN pc' = "cycle_end" /\ ci' = 0 /\ search' = "no"
             ELSE IF n = 0
                    THEN pc' = "alert" /\ ci' = 0 /\ search' = "returned"
                    ELSE pc' = "s_remove" /\ ci' = 1 /\ search' = "running"
    /\ checked' = checked \cup {pi}
    /\ prodAtStart' = ProdRules(rules)
    /\ result' = None
    /\ alerted' = None
    /\ UNCHANGED <<cfg, pi, rules, faults, exit_code>>

\* lines 365-368: remove the stale test rule, XrayAPIError swallowed
SearchRemove ==
    /\ pc = "s_remove"
    /\ \E ok \in XrayOutcomes :
        /\ rules' = remove_routing_rule(rules, test_tag(ProbeName(pi)), ok)
        /\ faults' = Faults(ok)
        /\ calls' = Append(calls, Call("rm", "test", None, ok, None))
    /\ pc' = "s_add"
    /\ UNCHANGED <<cfg, ncand, pi, ci, prodObs, search, result, alerted, prodAtStart, checked, exit_code>>

\* lines 370-376: install the test rule; on XrayAPIError continue with the next candidate
SearchAdd ==
    /\ pc = "s_add"
    /\ \E ok \in XrayOutcomes :
        LET ob == Candidates[ci]
            nx == OnInstallFailure(ci, ncand)
        IN /\ rules' = add_routing_rule(rules, test_rule(ProbeName(pi), ob), ok)
           /\ faults' = Faults(ok)
           /\ calls' = Append(calls, Call("add", "test", ob, ok, None))
           /\ IF ok THEN pc' = "s_probe" /\ ci' = ci
                    ELSE pc' = nx.pc /\ ci' = nx.ci
    /\ UNCHANGED <<cfg, ncand, pi, prodObs, search, result, alerted, prodAtStart, checked, exit_code>>

\* lines 378-391: probe through the test path; ok -> promote, else next candidate
SearchProbe ==
    /\ pc = "s_probe"
    /\ \E q \in Qualities :
        LET ob == Candidates[ci]
            nx == NextCandidate(ci, ncand)
        IN /\ calls' = Append(calls, Call("probe", "test", ob, OutcomeOk(q), q))
           /\ IF OutcomeOk(q) THEN pc' = "p_remove" /\ ci' = ci
                              ELSE pc' = nx.pc /\ ci' = nx.ci
    /\ UNCHANGED <<cfg, ncand, pi, rules, faults, prodObs, search, result, alerted, prodAtStart, checked, exit_code>>

\* _promote_outbound lines 400-404: remove the old production rule, error swallowed
PromoteRemove ==
    /\ pc = "p_remove"
    /\ \E ok \in XrayOutcomes :
        /\ rules' = remove_routing_rule(rules, prod_tag(ProbeName(pi)), ok)
        /\ faults' = Faults(ok)
        /\ calls' = Append(calls, Call("rm", "prod", None, ok, None))
    /\ pc' = "p_add"
    /\ UNCHANGED <<cfg, ncand, pi, ci, prodObs, search, result, alerted, prodAtStart, checked, exit_code>>

\* _promote_outbound lines 406-408: add the production rule; an XrayAPIError is
\* not caught here, nor in _recover_with_candidates, nor in run: main() returns 3
PromoteAdd ==
    /\ pc = "p_add"
    /\ \E ok \in XrayOutcomes :
        LET ob == Candidates[ci]
        IN /\ rules' = add_routing_rule(rules, new_rule(ProbeName(pi), ob), ok)
           /\ faults' = Faults(ok)
           /\ calls' = Append(calls, Call("add", "prod", ob, ok, None))
           /\ IF ok THEN pc' = "s_cleanup_found" /\ exit_code' = exit_code /\ search' = search
                    ELSE pc' = "aborted" /\ exit_code' = 3 /\ search' = "raised"
    /\ UNCHANGED <<cfg, ncand, pi, ci, prodObs, result, alerted, prodAtStart, checked>>

\* lines 385-389: remove the test rule (error swallowed) and return outbound
CleanupFound ==
    /\ pc = "s_cleanup_found"
    /\ \E ok \in XrayOutcomes :
        /\ rules' = remove_routing_rule(rules, test_tag(ProbeName(pi)), ok)
        /\ faults' = Faults(ok)
        /\ calls' = Append(calls, Call("rm", "test", None, ok, None))
    /\ result' = Candidates[ci]
    /\ search' = "returned"
    /\ pc' = "alert"
    /\ UNCHANGED <<cfg, ncand, pi, ci, prodObs, alerted, prodAtStart, checked, exit_code>>

\* lines 393-397: remove the test rule (error swallowed) and return None
CleanupExhausted ==
    /\ pc = "s_cleanup_exhausted"
    /\ \E ok \in XrayOutcomes :
        /\ rules' = remove_routing_rule(rules, test_tag(ProbeName(pi)), ok)
        /\ faults' = Faults(ok)
        /\ calls' = Append(calls, Call("rm", "test", None, ok, None))
    /\ result' = None
    /\ search' = "returned"
    /\ pc' = "alert"
    /\ UNCHANGED <<cfg, ncand, pi, ci, prodObs, alerted, prodAtStart, checked, exit_code>>

\* run() lines 334-341 with _send_outbound_change_alert and
\* TelegramNotifier.send_alert: the delivery may fail in any way, nothing is raised
NotifyOutcomes == {"sent", "disabled", "http_error", "no_aiohttp", "exception"}

\* whether send_alert lets the outcome d out as an exception: the notifier
\* returns early when disabled, logs a status other than 200, and catches
\* ImportError and Exception; send_alert_raises_uncaught is the variant
\* that catches ImportError only
send_alert_raises_uncaught(d) == d = "exception"
send_alert_raises(d) == FALSE

\* _send_outbound_change_alert: one send_alert; an exception out of it would
\* leave run() and main() with a traceback
Alert ==
    /\ pc = "alert"
    /\ \E d \in NotifyOutcomes :
        /\ alerted' = IF result # None THEN "switch" ELSE "failure"
        /\ calls' = Append(calls, Call("alert", d, result, d = "sent", None))
        /\ IF send_alert_raises(d)
             THEN pc' = "aborted" /\ exit_code' = 1
             ELSE pc' = "cycle_end" /\ exit_code' = exit_code
    /\ UNCHANGED <<cfg, ncand, pi, ci, rules, faults, prodObs, search, result, prodAtStart, checked>>

\* the body of the for loop of run() is one coroutine that awaits each call in
\* turn: the next iteration starts when the body has come to its end (or to its
\* continue); cycle_complete_early is the variant in which the next probe may
\* start while a candidate is still under test
cycle_complete_early(p) == p \in {"cycle_end", "s_probe"}
cycle_complete(p) == p = "cycle_end"

\* the for loop of run() takes the next probe, or run() returns and main() returns 0
NextProbe ==
    /\ cycle_complete(pc)
    /\ IF pi < NumProbes
         THEN /\ pi' = pi + 1 /\ pc' = "check_prod" /\ exit_code' = exit_code
              /\ ci' = 0 /\ ncand' = 0 /\ prodObs' = None /\ calls' = <<>> /\ search' = "no"
              /\ result' = None /\ alerted' = None /\ prodAtStart' = <<>>
         ELSE /\ pi' = pi /\ pc' = "done" /\ exit_code' = 0
              /\ UNCHANGED <<ci, ncand, prodObs, calls, search, result, alerted, prodAtStart>>
    /\ UNCHANGED <<cfg, rules, faults, checked>>

Next ==
    \/ CheckProd
    \/ SearchRemove
    \/ SearchAdd
    \/ SearchProbe
    \/ PromoteRemove
    \/ PromoteAdd
    \/ CleanupFound
    \/ CleanupExhausted
    \/ Alert
    \/ NextProbe

Spec == Init /\ [][Next]_vars

TypeOK ==
    /\ pi \in ProbeIdx
    /\ ci \in 0..MaxCands
    /\ faults \in 0..MaxFaults
    /\ search \in {"no", "running", "returned", "raised"}
    /\ result \in {None} \cup {OutboundNames[k] : k \in 1..Len(OutboundNames)}

\* ------------------------------------------------- reading the call history
name == ProbeName(pi)
cands == Candidates

\* the probes run through the test egress path in the current search, in order
TestProbes == SelectSeq(calls, LAMBDA c : c.op = "probe" /\ c.scope = "test")

\* position of an outbound in the candidate list of the current probe (0: not in it)
PosOf(ob) == IF \E j \in 1..Len(cands) : cands[j] = ob
               THEN CHOOSE j \in 1..Len(cands) : cands[j] = ob
               ELSE 0

Probed(ob) == \E k \in 1..Len(TestProbes) : TestProbes[k].cand = ob
QualityOf(ob) == TestProbes[CHOOSE k \in 1..Len(TestProbes) : TestProbes[k].cand = ob].q
InstallAttempted(ob) ==
    \E k \in 1..Len(calls) : calls[k].op = "add" /\ calls[k].scope = "test" /\ calls[k].cand = ob
InstallFailed(ob) ==
    \E k \in 1..Len(calls) :
        calls[k].op = "add" /\ calls[k].scope = "test" /\ calls[k].cand = ob /\ ~calls[k].ok
Installed(ob) ==
    \E k \in 1..Len(calls) :
        calls[k].op = "add" /\ calls[k].scope = "test" /\ calls[k].cand = ob /\ calls[k].ok

\* run() starts the search on every production check that is not ok; in the
\* words of the design the search after a blocked observation is
\* recoverWithCandidates (acceptSuboptimal), after a suboptimal one findOptimalCandidate
acceptSuboptimal == prodObs = "blocked"

\* first candidate, in list order, probed with quality q (None if there is none)
FirstProbedWith(q) ==
    IF \E j \in 1..Len(cands) : Probed(cands[j]) /\ QualityOf(cands[j]) = q
      THEN cands[CHOOSE j \in 1..Len(cands) :
                    /\ Probed(cands[j]) /\ QualityOf(cands[j]) = q
                    /\ \A i \in 1..(j - 1) : ~(Probed(cands[i]) /\ QualityOf(cands[i]) = q)]
      ELSE None

\* ------------------------------------------------------------------ claims

\* C1: a search that returns a candidate returns the first candidate in list
\* order whose test-path outcome was optimal: every candidate before it was
\* probed suboptimal or blocked (or could not be installed), and no candidate
\* after it was probed or had a test rule installed.
C1_FirstOptimalWins ==
    (search = "returned" /\ result # None) =>
        LET r == PosOf(result)
        IN /\ r > 0
           /\ Probed(result) /\ QualityOf(result) = "optimal"
           /\ TestProbes[Len(TestProbes)].cand = result
           /\ \A j \in 1..(r - 1) :
                \/ InstallFailed(cands[j]) /\ ~Probed(cands[j])
                \/ Probed(cands[j]) /\ QualityOf(cands[j]) \in {"suboptimal", "blocked"}
           /\ \A j \in (r + 1)..Len(cands) :
                ~Probed(cands[j]) /\ ~InstallAttempted(cands[j])

\* [A(suboptimal), B(optimal)] after a suboptimal production check: A is
\* skipped, B is returned and B's probe is the last one of the search
C1_Witness ==
    /\ search = "returned" /\ prodObs = "suboptimal"
    /\ ncand = 2 /\ result = "B"
    /\ Probed("A") /\ QualityOf("A") = "suboptimal"
    /\ Probed("B") /\ QualityOf("B") = "optimal"

\* C2 (as claimed): a search after a blocked production check in which no probed
\* candidate is optimal returns the first suboptimal candidate, after all
\* candidates have been tried.
C2_RecoverReturnsSuboptimal ==
    (/\ search = "returned" /\ acceptSuboptimal
     /\ FirstProbedWith("optimal") = None
     /\ FirstProbedWith("suboptimal") # None) =>
        /\ result = FirstProbedWith("suboptimal")
        /\ \A j \in 1..Len(cands) : InstallAttempted(cands[j])

\* C3 (as claimed): the result is the first optimal candidate if one was probed,
\* else the first suboptimal one if acceptSuboptimal, else none.
C3_Selection ==
    search = "returned" =>
        result = IF FirstProbedWith("optimal") # None THEN FirstProbedWith("optimal")
                 ELSE IF acceptSuboptimal THEN FirstProbedWith("suboptimal")
                 ELSE None

\* rules installed by promotions of the current probe
IsProdRuleOf(r, n) == r.tag = prod_tag(n) \/ r.ruleTag = prod_tag(n)
ProdRulesOf(n) == SelectSeq(rules, LAMBDA r : IsProdRuleOf(r, n))

\* C4 (as claimed): after a search selected X the rule table holds exactly one
\* production rule of the probe, and it is bound to X.
C4_OneProdRule ==
    (search = "returned" /\ result # None /\ ~dry_run) =>
        /\ Len(ProdRulesOf(name)) = 1
        /\ ProdRulesOf(name)[1].outboundTag = result

\* C5: a search that returns none leaves the production rules (all rules that
\* are not test rules) as they were when the probe's cycle started.
C5_FailedSearchKeepsProd ==
    (search = "returned" /\ result = None) => ProdRules(rules) = prodAtStart

C5_Witness ==
    /\ search = "returned" /\ result = None
    /\ Len(TestProbes) > 0
    /\ prodAtStart # <<>>

\* C6: a candidate whose test rule could not be installed is neither probed nor
\* returned, and the search goes on: when it returns none every candidate of
\* the list has been tried.
C6_InstallFailureSkips ==
    /\ \A j \in 1..Len(cands) :
          InstallFailed(cands[j]) => ~Probed(cands[j]) /\ result # cands[j]
    /\ (search = "returned" /\ result = None) =>
          \A j \in 1..Len(cands) : InstallAttempted(cands[j])

\* install of A fails, the search continues and B is probed
C6_Witness ==
    /\ search = "returned"
    /\ InstallFailed("A") /\ ~Probed("A")
    /\ Probed("B")

\* index in calls of the last probe through the test path
LastTestProbe ==
    CHOOSE k \in 1..Len(calls) :
        /\ calls[k].op = "probe" /\ calls[k].scope = "test"
        /\ \A m \in (k + 1)..Len(calls) : ~(calls[m].op = "probe" /\ calls[m].scope = "test")

HasTestRule(n) == \E k \in 1..Len(rules) : rules[k].ruleTag = test_tag(n)

\* C7 (as claimed): on every way out of a search that probed a candidate a
\* removal of the test rule is issued after the last probe, and if it succeeds
\* no test rule of the probe remains.
C7_TestRuleRemovedOnExit ==
    (search \in {"returned", "raised"} /\ Len(TestProbes) > 0) =>
        \E k \in (LastTestProbe + 1)..Len(calls) :
            /\ calls[k].op = "rm" /\ calls[k].scope = "test"
            /\ (calls[k].ok /\ ~dry_run) => ~HasTestRule(name)

\* C8 (as claimed): when the run is over the production check of every
\* configured probe has been executed.
C8_RunCompletes ==
    pc \in {"done", "aborted"} => checked = ProbeIdx

\* C9 (as claimed): blocked production check and a candidate found: the state is
\* persisted as optimal with that outbound and the switch alert is sent.
C9_RecoveryPersisted ==
    (pc = "cycle_end" /\ prodObs = "blocked" /\ search = "returned" /\ result # None) =>
        /\ alerted = "switch"
        /\ name \in DOMAIN states
        /\ states[name].quality = "optimal"
        /\ states[name].outbound = result

\* C10 (as claimed): blocked production check and no candidate found: the state
\* is persisted as blocked with reason "all candidates exhausted", and the
\* failure alert is sent iff should_send_alert(blocked, threshold).
C10_ExhaustedPersisted ==
    (pc = "cycle_end" /\ prodObs = "blocked" /\ search = "returned" /\ result = None) =>
        /\ \A t \in Qualities : (alerted = "failure") <=> should_send_alert("blocked", t)
        /\ name \in DOMAIN states
        /\ states[name].quality = "blocked"
        /\ states[name].reason = "all candidates exhausted"

\* ------------------------------------------- a run that finds a state file
\* AppConfig.suboptimal_skip_hours (default)
suboptimal_skip_hours == 1

\* the table a StateManager holds when the state file records every probe as
\* suboptimal, checked one tick (half an hour) before the run
CooldownNames == <<ProbeName(1), ProbeName(2)>>
CooldownTable ==
    [n \in {CooldownNames[i] : i \in 1..Len(CooldownNames)} |->
        ProbeState(n, "suboptimal", OutboundNames[1], isoformat(0), None)]

InitCooldown ==
    /\ ncand = 0
    /\ dry_run \in BOOLEAN
    /\ pi = 1
    /\ pc = "check_prod"
    /\ ci = 0
    /\ rules \in PriorTables
    /\ prodObs = None
    /\ calls = <<>>
    /\ search = "no"
    /\ result = None
    /\ alerted = None
    /\ prodAtStart = <<>>
    /\ checked = {}
    /\ states = CooldownTable
    /\ order = CooldownNames
    /\ file = save(CooldownTable, CooldownNames, NoFile, "written")
    /\ now = 1
    /\ faults = 0
    /\ exit_code = NoExit
    /\ last_op = NoOp
    /\ input = None
    /\ output = None

SpecCooldown == InitCooldown /\ [][Next]_vars

\* calls of the current cycle that belong to a candidate search or a promotion
ControlPlaneCalls == SelectSeq(calls, LAMBDA c : c.op \in {"add", "rm"})

\* C11 (as claimed): a suboptimal production check of a probe for which
\* should_skip_suboptimal holds ends the cycle with the record of the probe
\* persisted as suboptimal with a fresh timestamp and without any candidate
\* search: no test rule installed, no candidate probed, no production rule changed.
C11_SkipSuboptimal ==
    (/\ pc = "cycle_end" /\ prodObs = "suboptimal"
     /\ should_skip_suboptimal(states, now, name, suboptimal_skip_hours)) =>
        /\ search = "no"
        /\ Len(TestProbes) = 0
        /\ Len(ControlPlaneCalls) = 0
        /\ ProdRules(rules) = prodAtStart
        /\ get(states, name).quality = "suboptimal"
        /\ get(states, name).last_check_time = isoformat(now)

\* C12 (as claimed): a suboptimal production check of a probe for which
\* should_skip_suboptimal does not hold runs the search for an optimal
\* candidate; a found candidate is persisted as optimal with that outbound and
\* the switch alert is sent; with none found suboptimal is persisted and the
\* degradation alert is sent iff should_send_alert(suboptimal, threshold).
C12_SuboptimalSearch ==
    (/\ pc = "cycle_end" /\ prodObs = "suboptimal"
     /\ ~should_skip_suboptimal(states, now, name, suboptimal_skip_hours)) =>
        /\ search = "returned"
        /\ result # None =>
              /\ alerted = "switch"
              /\ name \in DOMAIN states
              /\ states[name].quality = "optimal"
              /\ states[name].outbound = result
        /\ result = None =>
              /\ \A t \in Qualities : (alerted = "failure") <=> should_send_alert("suboptimal", t)
              /\ name \in DOMAIN states
              /\ states[name].quality = "suboptimal"

\* alerts sent in the current cycle
AlertCalls == SelectSeq(calls, LAMBDA c : c.op = "alert")

\* C13 (as claimed): an optimal production check ends the cycle with optimal
\* persisted for the probe and nothing else done: no candidate search, no
\* control-plane call and no alert.
C13_OptimalOnlyPersists ==
    (pc = "cycle_end" /\ prodObs = "optimal") =>
        /\ search = "no"
        /\ Len(TestProbes) = 0
        /\ Len(ControlPlaneCalls) = 0
        /\ Len(AlertCalls) = 0 /\ alerted = None
        /\ name \in DOMAIN states
        /\ states[name].quality = "optimal"

\* --------------------------------------- the StateManager of modules/state.py
\* probe names the StateManager is called with
StateNames == {ProbeNames[1], ProbeNames[2]}

\* (quality, outbound, reason) of the update calls
UpdateArgs ==
    { <<"optimal", OutboundNames[1], None>>,
      <<"suboptimal", None, None>>,
      <<"blocked", None, "all candidates exhausted">> }

\* state files a StateManager can find that no save() wrote: none, text that
\* is no JSON, a record without quality after a good one, a record with an
\* unknown key before a good one, records whose last_check_time is no ISO
\* text or is missing
StartFiles ==
    { NoFile,
      GarbageFile,
      JsonFile(<< <<"p1", state_dict(ProbeState("p1", "suboptimal", "A", isoformat(0), None))>>,
                  <<"p2", [probe_name |-> json_dumps("p2")]>> >>),
      JsonFile(<< <<"p1", [probe_name |-> json_dumps("p1"), quality |-> json_dumps("optimal"),
                           checked_by |-> json_dumps("cron")]>>,
                  <<"p2", state_dict(ProbeState("p2", "optimal", "B", isoformat(0), None))>> >>),
      JsonFile(<< <<"p1", state_dict(ProbeState("p1", "suboptimal", None, "yesterday", None))>>,
                  <<"p2", [probe_name |-> json_dumps("p2"), quality |-> json_dumps("suboptimal")]>> >>) }

\* the variables of ProbeManager.run, which the StateManager never touches
runvars == <<ncand, dry_run, pi, ci, rules, prodObs, calls, search, result, alerted,
             prodAtStart, checked, faults, exit_code, input, output>>

StateInit ==
    /\ ncand = 0
    /\ dry_run = FALSE
    /\ pi = 1
    /\ pc = "sm_new"
    /\ ci = 0
    /\ rules = <<>>
    /\ prodObs = None
    /\ calls = <<>>
    /\ search = "no"
    /\ result = None
    /\ alerted = None
    /\ prodAtStart = <<>>
    /\ checked = {}
    /\ states = <<>>
    /\ order = <<>>
    /\ file \in StartFiles
    /\ now = 0
    /\ faults = 0
    /\ exit_code = NoExit
    /\ last_op = NoOp
    /\ input = None
    /\ output = None

\* what was passed to the last update of each name by the current StateManager
NoUpdates == [n \in StateNames |-> NoState]

\* StateManager(state_file): __init__ sets _states = {} and calls _load, which
\* never raises
Construct ==
    /\ pc = "sm_new"
    /\ states' = load(file).states
    /\ order' = load(file).order
    /\ last_op' = [NoOp EXCEPT !.kind = "init", !.seq = last_op.seq, !.t = now,
                               !.w = last_op.w, !.before = last_op.before,
                               !.latest = NoUpdates]
    /\ pc' = "sm_ready"
    /\ UNCHANGED <<runvars, file, now>>

\* StateManager.update(probe_name, quality, outbound, reason): the record is
\* replaced in memory, then save() runs and swallows a failed write (an
\* exception out of save() would end the caller: "sm_failed")
Update ==
    /\ pc = "sm_ready"
    /\ last_op.seq < MaxUpdates
    /\ \E n \in StateNames, a \in UpdateArgs, w \in WriteOutcomes :
        LET rec == ProbeState(n, a[1], a[2], isoformat(now), a[3])
            tbl == dict_set(states, n, rec)
            keys == dict_keys(order, n)
        IN /\ states' = tbl
           /\ order' = keys
           /\ file' = save(tbl, keys, file, w)
           /\ last_op' = [kind |-> "update", seq |-> last_op.seq + 1, probe_name |-> n,
                          quality |-> a[1], outbound |-> a[2], reason |-> a[3],
                          t |-> now, w |-> w, before |-> states,
                          latest |-> [last_op.latest EXCEPT ![n] =
                                         ProbeState(n, a[1], a[2], isoformat(now), a[3])]]
           /\ pc' = IF save_raises(w) THEN "sm_failed" ELSE pc
    /\ UNCHANGED <<runvars, now>>

\* the wall clock advances
Tick ==
    /\ pc \in {"sm_new", "sm_ready"}
    /\ now < MaxTime
    /\ now' = now + 1
    /\ UNCHANGED <<runvars, pc, states, order, file, last_op>>

\* the process ends after an update; the next one constructs its StateManager
\* from the file (last_op keeps the table the process had and the outcome of
\* its last write)
Exit ==
    /\ pc = "sm_ready"
    /\ last_op.kind = "update"
    /\ pc' = "sm_new"
    /\ states' = <<>>
    /\ order' = <<>>
    /\ last_op' = [NoOp EXCEPT !.kind = "exit", !.seq = last_op.seq, !.t = now,
                               !.w = last_op.w, !.before = states]
    /\ UNCHANGED <<runvars, file, now>>

StateNext == Construct \/ Update \/ Tick \/ Exit

StateSpec == StateInit /\ [][StateNext]_vars

\* values of suboptimal_skip_hours the queries are made with
SkipHours == 0..2

\* C14: should_skip_suboptimal(name, skip_hours) is true iff a record of name
\* exists, its quality is exactly suboptimal, its last_check_time parses as a
\* timestamp and strictly less than skip_hours have passed since it (the clock
\* ticks every 30 minutes); so it is false at exactly skip_hours, without a
\* record, for optimal and blocked, and for a timestamp that does not parse.
C14_SkipIff ==
    \A n \in StateNames, h \in SkipHours :
        should_skip_suboptimal(states, now, n, h) <=>
            /\ n \in DOMAIN states
            /\ states[n].quality = "suboptimal"
            /\ iso_parses(states[n].last_check_time)
            /\ 30 * (now - fromisoformat(states[n].last_check_time)) < 60 * h

\* p1 was loaded as suboptimal with the timestamp "yesterday", p2 was updated
\* to suboptimal exactly one hour ago: no skip for p1, for p2 no skip with one
\* hour and a skip with two
C14_Witness ==
    /\ pc = "sm_ready" /\ now = 2
    /\ "p1" \in DOMAIN states /\ states["p1"].quality = "suboptimal"
    /\ states["p1"].last_check_time = "yesterday"
    /\ ~should_skip_suboptimal(states, now, "p1", 1)
    /\ "p2" \in DOMAIN states /\ states["p2"].quality = "suboptimal"
    /\ states["p2"].last_check_time = isoformat(0)
    /\ ~should_skip_suboptimal(states, now, "p2", 1)
    /\ should_skip_suboptimal(states, now, "p2", 2)

\* C15: after update(name, quality, outbound, reason) the record of name is
\* exactly the passed values with the timestamp of the call, every other name
\* has the record it had before, and get(name) returns for every name the
\* values of the last update made for it.
C15_UpdateReplaces ==
    /\ last_op.kind = "update" =>
          LET n == last_op.probe_name
          IN /\ get(states, n) = ProbeState(n, last_op.quality, last_op.outbound,
                                            isoformat(last_op.t), last_op.reason)
             /\ \A m \in StateNames \ {n} : get(states, m) = get(last_op.before, m)
             /\ DOMAIN states = (DOMAIN last_op.before) \cup {n}
    /\ pc = "sm_ready" =>
          \A m \in StateNames :
              last_op.latest[m] # NoState => get(states, m) = last_op.latest[m]

\* the second update of a name passes no outbound and no reason over a record
\* that had an outbound, while the other name has a record
C15_Witness ==
    /\ last_op.kind = "update" /\ last_op.seq = 2
    /\ last_op.outbound = None
    /\ get(last_op.before, last_op.probe_name) # NoState
    /\ get(last_op.before, last_op.probe_name).outbound = "A"
    /\ get(states, last_op.probe_name).outbound = None
    /\ \E m \in StateNames \ {last_op.probe_name} : get(states, m) # NoState

\* C16: what save() writes of a table, loaded by a fresh StateManager, is the
\* table: the same names with the same five fields; and a StateManager
\* constructed after a process whose last write succeeded holds the table that
\* process had.
C16_RoundTrip ==
    /\ pc = "sm_ready" =>
          LET fresh == load(save(states, order, file, "written"))
          IN /\ DOMAIN fresh.states = DOMAIN states
             /\ \A n \in DOMAIN states : fresh.states[n] = states[n]
    /\ (pc = "sm_ready" /\ last_op.kind = "init" /\ last_op.w = "written") =>
          /\ DOMAIN states = DOMAIN last_op.before
          /\ \A n \in DOMAIN states : states[n] = last_op.before[n]

\* a process updated two names, one with a reason and no outbound, wrote the
\* file and ended; the next process has loaded both records
C16_Witness ==
    /\ pc = "sm_ready" /\ last_op.kind = "init" /\ last_op.w = "written"
    /\ DOMAIN states = StateNames
    /\ \E n \in StateNames : states[n].reason # None /\ states[n].outbound = None
    /\ \E n \in StateNames : states[n].outbound # None

\* does _load end in its exception handler on this file
load_fails(f) ==
    /\ f.exists
    /\ \/ ~f.json
       \/ \E i \in 1..Len(f.items) : ~ProbeState_accepts(f.items[i][2])

\* C17 (as claimed): a StateManager constructed from a file whose load fails
\* holds no record at all: get returns none for every name, also for names
\* whose records stand before the malformed one in the file.
C17_FailedLoadIsEmpty ==
    (pc = "sm_ready" /\ last_op.kind = "init" /\ load_fails(file)) =>
        \A n \in StateNames : get(states, n) = NoState

\* C18: an update whose write failed has not raised, and the record in memory
\* is the new one: get returns the passed values with the timestamp of the
\* call and should_skip_suboptimal answers from them.
C18_FailedWriteKeepsMemory ==
    (last_op.kind = "update" /\ last_op.w # "written") =>
        LET n == last_op.probe_name
        IN /\ pc = "sm_ready"
           /\ get(states, n) = ProbeState(n, last_op.quality, last_op.outbound,
                                          isoformat(last_op.t), last_op.reason)
           /\ \A h \in SkipHours :
                should_skip_suboptimal(states, now, n, h) <=>
                    (last_op.quality = "suboptimal" /\ 30 * (now - last_op.t) < 60 * h)

\* a refused write of a suboptimal record: the file still lacks the record,
\* the cooldown of one hour already holds in memory
C18_Witness ==
    /\ last_op.kind = "update" /\ last_op.w = "refused"
    /\ last_op.quality = "suboptimal"
    /\ ~file.exists
    /\ should_skip_suboptimal(states, now, last_op.probe_name, 1)

\* C34: after an update whose write went through the state file holds the
\* whole table of the StateManager: a JSON object with one member for every
\* name in memory, not only the updated one, each decoding to the record in
\* memory; this stays so until the next operation.
C34_FileReflectsTable ==
    (last_op.kind = "update" /\ last_op.w = "written") =>
        /\ file.exists /\ file.json
        /\ {file.items[i][1] : i \in 1..Len(file.items)} = DOMAIN states
        /\ Len(file.items) = Cardinality(DOMAIN states)
        /\ \A i \in 1..Len(file.items) :
              /\ ProbeState_accepts(file.items[i][2])
              /\ ProbeState_of(file.items[i][2]) = states[file.items[i][1]]
        /\ load(file).states = states

\* a written update with two names in memory, the other one not updated by
\* this call
C34_Witness ==
    /\ last_op.kind = "update" /\ last_op.w = "written"
    /\ Cardinality(DOMAIN states) = 2
    /\ Len(file.items) = 2
    /\ \E i \in 1..2 : file.items[i][1] # last_op.probe_name

\* ------------------------------------ classification of modules/probe.py
\* a str is the sequence of its characters
lower_char(c) ==
    CASE c = "O" -> "o"
      [] c = "C" -> "c"
      [] c = "R" -> "r"
      [] c = "D" -> "d"
      [] OTHER -> c

\* str.lower()
lower(s) == [i \in 1..Len(s) |-> lower_char(s[i])]

\* `needle in hay` of two str
str_in(needle, hay) ==
    \E i \in 1..(Len(hay) - Len(needle) + 1) : SubSeq(hay, i, i + Len(needle) - 1) = needle

\* the text of a status code in a reason
StatusText(n) ==
    CASE n = 200 -> "200"
      [] n = 403 -> "403"
      [] OTHER -> "0"

\* dataclass MatchResult; a reason is the sequence of the pieces of its text
MatchResult(matched, reason) == [matched |-> matched, reason |-> reason]

\* index of the first element of list that satisfies Test (0: none does)
FirstIndex(list, Test(_)) ==
    IF \E i \in 1..Len(list) : Test(list[i])
      THEN CHOOSE i \in 1..Len(list) : Test(list[i]) /\ \A j \in 1..(i - 1) : ~Test(list[j])
      ELSE 0

\* the pieces of a list of str in a reason
RECURSIVE render(_)
render(list) == IF list = <<>> THEN <<>> ELSE Head(list) \o <<",">> \o render(Tail(list))

\* soup.select(css) on the page content: the texts of the selected elements
select(content, css) == IF css \in DOMAIN content THEN content[css] ELSE <<>>

\* _match_selector with a str selector_config (lines 227-245): elements must
\* exist, and with a text pattern one element must contain one pattern
match_selector(content, css, patterns) ==
    LET elements == select(content, css)
        Hit(el) == \E k \in 1..Len(patterns) : str_in(lower(patterns[k]), lower(el))
        el == elements[FirstIndex(elements, Hit)]
        InEl(pat) == str_in(lower(pat), lower(el))
    IN IF elements = <<>> THEN MatchResult(FALSE, <<"selector not found", css>>)
       ELSE IF patterns # <<>>
              THEN IF FirstIndex(elements, Hit) > 0
                     THEN MatchResult(TRUE, <<"selector", css, "matched text">>
                                            \o patterns[FirstIndex(patterns, InEl)])
                     ELSE MatchResult(FALSE, <<"selector", css, "text not found">>
                                             \o render(patterns))
              ELSE MatchResult(TRUE, <<"selector found", css>>)

\* ';'.join(matched_reasons)
RECURSIVE join(_)
join(parts) ==
    IF parts = <<>> THEN <<>>
    ELSE IF Len(parts) = 1 THEN parts[1]
    ELSE parts[1] \o <<";">> \o join(Tail(parts))

\* the order in which _match_dict takes the checks (lines 164, 170, 182, 190);
\* CheckOrder_contains_first is the variant that looks at the text first
CheckOrder_contains_first == <<"contains", "status", "title", "selector">>
CheckOrder == <<"status", "title", "selector", "contains">>

\* one check of _match_dict on a config that has the key k: on success the
\* reason is the piece appended to matched_reasons, on failure the reason that
\* is returned.  A scalar expectation is the one-element list it is wrapped
\* into (lines 165, 172, 192); config.get("text") without the key is the empty
\* pattern list
run_check(k, config, status, title, content, text) ==
    LET status_in == \E i \in 1..Len(config.status) : config.status[i] = status
        InTitle(t) == str_in(lower(t), lower(title))
        InText(t) == str_in(lower(t), lower(text))
        selector_match ==
            match_selector(content, config.selector,
                           IF "text" \in DOMAIN config THEN config.text ELSE <<>>)
    IN CASE k = "status" ->
              IF status_in THEN MatchResult(TRUE, <<"status", StatusText(status)>>)
              ELSE MatchResult(FALSE, <<"status mismatch", StatusText(status)>>)
         [] k = "title" ->
              IF FirstIndex(config.title, InTitle) > 0
                THEN MatchResult(TRUE, <<"title">> \o config.title[FirstIndex(config.title, InTitle)])
                ELSE MatchResult(FALSE, <<"title mismatch">> \o render(config.title))
         [] k = "selector" ->
              IF selector_match.matched
                THEN MatchResult(TRUE, <<"selector">> \o selector_match.reason)
                ELSE selector_match
         [] k = "contains" ->
              IF FirstIndex(config.contains, InText) > 0
                THEN MatchResult(TRUE, <<"contains">>
                                       \o config.contains[FirstIndex(config.contains, InText)])
                ELSE MatchResult(FALSE, <<"text mismatch">> \o render(config.contains))

\* line 202: no check has returned; all_checks_passed_needs_one is the variant
\* in which a config without checks does not match
all_checks_passed_needs_one(matched_reasons) ==
    MatchResult(matched_reasons # <<>>, join(matched_reasons))
all_checks_passed(matched_reasons) == MatchResult(TRUE, join(matched_reasons))

\* the body of _match_dict from the i-th check on: a check whose key is not in
\* config is passed over, the first failing check returns; `checks` lists the
\* checks that were evaluated
RECURSIVE match_from(_, _, _, _, _, _, _, _)
match_from(i, config, status, title, content, text, matched_reasons, checks) ==
    IF i > Len(CheckOrder)
      THEN [result |-> all_checks_passed(matched_reasons), checks |-> checks]
    ELSE IF CheckOrder[i] \notin DOMAIN config
      THEN match_from(i + 1, config, status, title, content, text, matched_reasons, checks)
    ELSE LET r == run_check(CheckOrder[i], config, status, title, content, text)
         IN IF r.matched
              THEN match_from(i + 1, config, status, title, content, text,
                              Append(matched_reasons, r.reason), Append(checks, CheckOrder[i]))
              ELSE [result |-> r, checks |-> Append(checks, CheckOrder[i])]

\* _match_dict
match_dict(config, status, title, content, text) ==
    match_from(1, config, status, title, content, text, <<>>, <<>>).result

\* Expectation.to_dict: status, title and body, each only if truthy (status 0
\* and the empty str are left out like None)
to_dict(expectation) ==
    [k \in {x \in {"status", "title", "body"} :
                \/ x = "status" /\ expectation.status # 0
                \/ x = "title" /\ expectation.title # <<>>
                \/ x = "body" /\ expectation.body # <<>>} |->
        CASE k = "status" -> <<expectation.status>>
          [] k = "title" -> <<expectation.title>>
          [] OTHER -> <<expectation.body>>]

\* truth value of an Optional[Dict]: None and {} are falsy; both are the dict
\* without keys here
truthy(d) == DOMAIN d # {}

\* dataclass ProbeOutcome (request_latency_ms left out)
ProbeOutcome(ok, reason, status, quality) ==
    [ok |-> ok, reason |-> reason, status |-> status, quality |-> quality]

\* lines 125-127: the forbidden tier decides; must_not_ignored is the variant
\* of a probe without a forbidden tier
must_not_ignored(must_not, match_result) == FALSE
must_not_blocks(must_not, match_result) == truthy(must_not) /\ match_result.matched

\* lines 140-142: the fallback tier decides; fallback_ignored is the variant
\* of a probe without a fallback tier
fallback_ignored(fallback_expect, fallback_result) == FALSE
fallback_accepts(fallback_expect, fallback_result) ==
    truthy(fallback_expect) /\ fallback_result.matched

\* _check_quality: must_not, then expect, then fallback_expect, then blocked;
\* `tiers` lists the dicts handed to _match_dict, in order
check_quality(expectation, status, title, content, text) ==
    LET forbidden == match_dict(expectation.must_not, status, title, content, text)
        match_result == match_dict(to_dict(expectation), status, title, content, text)
        fallback_result == match_dict(expectation.fallback_expect, status, title, content, text)
        t1 == IF truthy(expectation.must_not) THEN <<"must_not">> ELSE <<>>
        t2 == t1 \o <<"expect">>
        t3 == t2 \o (IF truthy(expectation.fallback_expect) THEN <<"fallback_expect">> ELSE <<>>)
    IN IF must_not_blocks(expectation.must_not, forbidden)
         THEN [outcome |-> ProbeOutcome(FALSE, forbidden.reason, status, "blocked"), tiers |-> t1]
       ELSE IF match_result.matched
         THEN [outcome |-> ProbeOutcome(TRUE, <<"expectation met">>, status, "optimal"),
               tiers |-> t2]
       ELSE IF fallback_accepts(expectation.fallback_expect, fallback_result)
         THEN [outcome |-> ProbeOutcome(TRUE, fallback_result.reason, status, "suboptimal"),
               tiers |-> t3]
       ELSE [outcome |-> ProbeOutcome(FALSE, match_result.reason, status, "blocked"),
             tiers |-> t3]

\* the dict without keys (also standing for None where a dict is optional)
EmptyDict == [x \in {} |-> <<>>]

\* pages met by a probe: status, title, selectable elements and visible text
Pages ==
    [status : {200, 403},
     title : {<<"O", "k">>, <<"C", "a", "p">>},
     content : {EmptyDict, [x \in {".err"} |-> << <<"D", "e", "n", "y">> >>]},
     text : {<<"h", "i">>, <<"R", "o", "b", "o", "t">>}]

\* the expect section of a probe: primary fields, fallback_expect and must_not
Expectations ==
    [status : {0, 200},
     title : {<<>>, <<"o", "k">>},
     body : {<<>>, <<"h", "i">>},
     fallback_expect :
        {EmptyDict,
         [x \in {"status"} |-> <<403>>],
         [x \in {"contains"} |-> << <<"r", "o", "b", "o", "t">> >>],
         [status |-> <<200, 403>>, title |-> << <<"c", "a", "p">> >>]},
     must_not :
        {EmptyDict,
         [x \in {"contains"} |-> << <<"r", "o", "b", "o", "t">> >>],
         [selector |-> ".err", text |-> << <<"d", "e", "n", "y">> >>],
         [x \in {"status"} |-> <<403>>]}]

ClassifyInit ==
    /\ ncand = 0
    /\ dry_run = FALSE
    /\ pi = 1
    /\ pc = "cq_call"
    /\ ci = 0
    /\ rules = <<>>
    /\ prodObs = None
    /\ calls = <<>>
    /\ search = "no"
    /\ result = None
    /\ alerted = None
    /\ prodAtStart = <<>>
    /\ checked = {}
    /\ states = <<>>
    /\ order = <<>>
    /\ file = NoFile
    /\ now = 0
    /\ faults = 0
    /\ exit_code = NoExit
    /\ last_op = NoOp
    /\ input \in [expect : Expectations, page : Pages]
    /\ output = None

\* PlaywrightProbe.check line 75: the page has a status, _check_quality classifies it
CheckQuality ==
    /\ pc = "cq_call"
    /\ output' = check_quality(input.expect, input.page.status, input.page.title,
                               input.page.content, input.page.text)
    /\ pc' = "cq_done"
    /\ UNCHANGED <<ncand, dry_run, pi, ci, rules, prodObs, calls, search, result, alerted,
                   prodAtStart, checked, faults, exit_code, states, order, file, now,
                   last_op, input>>

ClassifyNext == CheckQuality

ClassifySpec == ClassifyInit /\ [][ClassifyNext]_vars

\* the three tiers of the classified input, matched against its page
tier_match(config) ==
    match_dict(config, input.page.status, input.page.title, input.page.content, input.page.text)
forbidden_hit == truthy(input.expect.must_not) /\ tier_match(input.expect.must_not).matched
primary_match == tier_match(to_dict(input.expect))
fallback_hit ==
    truthy(input.expect.fallback_expect) /\ tier_match(input.expect.fallback_expect).matched

\* C19: whenever must_not is configured and matches the page, the outcome is
\* blocked with ok = false and the reason of the must_not match, whatever the
\* primary and the fallback tier are and whether they match.
C19_ForbiddenBlocks ==
    (pc = "cq_done" /\ forbidden_hit) =>
        output.outcome = ProbeOutcome(FALSE, tier_match(input.expect.must_not).reason,
                                      input.page.status, "blocked")

\* must_not matches a page on which the primary tier (status and title
\* configured) and the fallback tier match as well
C19_Witness ==
    /\ pc = "cq_done" /\ forbidden_hit
    /\ input.expect.status # 0 /\ input.expect.title # <<>>
    /\ primary_match.matched
    /\ fallback_hit
    /\ output.outcome.quality = "blocked"

\* C20: when must_not is absent or does not match, a matching primary tier
\* gives optimal with ok = true and the fallback tier is not consulted;
\* otherwise a configured and matching fallback tier gives suboptimal with
\* ok = true and the reason of the fallback match; otherwise the outcome is
\* blocked with ok = false and the reason of the failed primary match.
C20_TierOrder ==
    (pc = "cq_done" /\ ~forbidden_hit) =>
        IF primary_match.matched
          THEN /\ output.outcome.quality = "optimal" /\ output.outcome.ok
               /\ \A i \in 1..Len(output.tiers) : output.tiers[i] # "fallback_expect"
          ELSE IF fallback_hit
                 THEN output.outcome =
                        ProbeOutcome(TRUE, tier_match(input.expect.fallback_expect).reason,
                                     input.page.status, "suboptimal")
                 ELSE output.outcome =
                        ProbeOutcome(FALSE, primary_match.reason, input.page.status, "blocked")

\* the title of the page fails the primary tier, the fallback tier (status
\* and title) matches: suboptimal, after must_not was consulted without a match
C20_Witness ==
    /\ pc = "cq_done" /\ ~forbidden_hit /\ truthy(input.expect.must_not)
    /\ ~primary_match.matched /\ fallback_hit
    /\ "title" \in DOMAIN input.expect.fallback_expect
    /\ output.outcome.quality = "suboptimal" /\ output.outcome.ok
    /\ output.tiers = <<"must_not", "expect", "fallback_expect">>

\* the keys _match_dict looks at
CheckKeys == {"status", "title", "selector", "contains"}

TierValue(k, v) ==
    CASE k = "status" -> IF v = "x" THEN <<200>> ELSE <<403, 200>>
      [] k = "title" -> IF v = "x" THEN << <<"o", "k">> >> ELSE << <<"n", "o">>, <<"C", "A", "P">> >>
      [] k = "selector" -> IF v = "x" THEN ".err" ELSE ".ok"
      [] k = "contains" -> IF v = "x" THEN << <<"r", "o", "b", "o", "t">> >> ELSE << <<"H", "I">> >>
      [] OTHER -> << <<"d", "e", "n", "y">> >>

\* tier dicts: every set of check keys with either value, and with a text
\* pattern next to a selector
TierConfigs ==
    {[k \in K |-> TierValue(k, v)] : K \in SUBSET CheckKeys, v \in {"x", "y"}}
    \cup {[k \in K \cup {"selector", "text"} |-> TierValue(k, v)] :
              K \in SUBSET CheckKeys, v \in {"x", "y"}}

MatchInit ==
    /\ ncand = 0
    /\ dry_run = FALSE
    /\ pi = 1
    /\ pc = "md_call"
    /\ ci = 0
    /\ rules = <<>>
    /\ prodObs = None
    /\ calls = <<>>
    /\ search = "no"
    /\ result = None
    /\ alerted = None
    /\ prodAtStart = <<>>
    /\ checked = {}
    /\ states = <<>>
    /\ order = <<>>
    /\ file = NoFile
    /\ now = 0
    /\ faults = 0
    /\ exit_code = NoExit
    /\ last_op = NoOp
    /\ input \in [config : TierConfigs, page : Pages]
    /\ output = None

\* a call of _match_dict on a tier dict and the signals of a page
MatchDict ==
    /\ pc = "md_call"
    /\ output' = match_from(1, input.config, input.page.status, input.page.title,
                            input.page.content, input.page.text, <<>>, <<>>)
    /\ pc' = "md_done"
    /\ UNCHANGED <<ncand, dry_run, pi, ci, rules, prodObs, calls, search, result, alerted,
                   prodAtStart, checked, faults, exit_code, states, order, file, now,
                   last_op, input>>

MatchNext == MatchDict

MatchSpec == MatchInit /\ [][MatchNext]_vars

\* does the page of the input pass the check k of the config of the input
CheckPasses(k) ==
    LET c == input.config
        pg == input.page
        els == IF c.selector \in DOMAIN pg.content THEN pg.content[c.selector] ELSE <<>>
    IN CASE k = "status" -> \E i \in 1..Len(c.status) : c.status[i] = pg.status
         [] k = "title" -> \E i \in 1..Len(c.title) : str_in(lower(c.title[i]), lower(pg.title))
         [] k = "selector" ->
              /\ els # <<>>
              /\ "text" \in DOMAIN c =>
                    \E e \in 1..Len(els), i \in 1..Len(c.text) :
                        str_in(lower(c.text[i]), lower(els[e]))
         [] k = "contains" ->
              \E i \in 1..Len(c.contains) : str_in(lower(c.contains[i]), lower(pg.text))

\* the configured checks in the order status, title, selector, contains
ConfiguredChecks ==
    SelectSeq(<<"status", "title", "selector", "contains">>, LAMBDA k : k \in DOMAIN input.config)

\* position in ConfiguredChecks of the first check that fails (0: none fails)
FirstFailing ==
    IF \E i \in 1..Len(ConfiguredChecks) : ~CheckPasses(ConfiguredChecks[i])
      THEN CHOOSE i \in 1..Len(ConfiguredChecks) :
              /\ ~CheckPasses(ConfiguredChecks[i])
              /\ \A j \in 1..(i - 1) : CheckPasses(ConfiguredChecks[j])
      ELSE 0

\* C22: _match_dict returns matched = true iff every configured check among
\* status, title, selector, contains passes; it evaluates the configured
\* checks in this order and stops at the first one that fails, whose reason
\* it returns.
C22_FirstFailureDecides ==
    pc = "md_done" =>
        /\ output.result.matched <=> FirstFailing = 0
        /\ FirstFailing = 0 => output.checks = ConfiguredChecks
        /\ FirstFailing > 0 =>
              /\ output.checks = SubSeq(ConfiguredChecks, 1, FirstFailing)
              /\ output.result.reason =
                    run_check(ConfiguredChecks[FirstFailing], input.config, input.page.status,
                              input.page.title, input.page.content, input.page.text).reason

\* all four checks configured, status and title pass, the selector finds no
\* element and the text would not match either: the selector reason is returned
C22_Witness ==
    /\ pc = "md_done"
    /\ DOMAIN input.config = CheckKeys
    /\ CheckPasses("status") /\ CheckPasses("title")
    /\ ~CheckPasses("selector") /\ ~CheckPasses("contains")
    /\ output.checks = <<"status", "title", "selector">>
    /\ ~output.result.matched
    /\ output.result.reason = <<"selector not found", input.config.selector>>

\* ------------------------------------------------ PlaywrightProbe.check
\* `status = response.status if response else None`: the status of a
\* navigation without a response; Expectation.status 0 stands for None as well
NoStatus == 0

\* what the browser does in a check: the navigation gets a response, returns
\* no response, raises TimeoutError in page.goto, raises TimeoutError before
\* `page` is bound (new_context, new_page), or a call raises another Playwright Error
BrowserEvents == {"response", "no_response", "timeout", "timeout_early", "error"}

\* what check() hands to its caller: an outcome, or the exception that leaves it
Returned(outcome, tiers) == [raised |-> None, outcome |-> outcome, tiers |-> tiers]
Raised(exc) == [raised |-> exc, outcome |-> [ok |-> FALSE], tiers |-> <<>>]

\* the outcome of a failed check in modules/probe.py (lines 61, 81, 95):
\* ok=False with quality="blocked" given explicitly;
\* failure_outcome_default_quality is the variant that leaves the quality to
\* the default of the dataclass, "optimal"
failure_outcome_default_quality(reason) == ProbeOutcome(FALSE, reason, NoStatus, "optimal")
failure_outcome(reason) == ProbeOutcome(FALSE, reason, NoStatus, "blocked")

\* PlaywrightProbe.check of modules/probe.py; shot: does page.screenshot succeed
check(expectation, page, event, shot) ==
    CASE event = "error" -> Returned(failure_outcome(<<"Playwright error">>), <<>>)
      [] event \in {"timeout", "timeout_early"} ->
            Returned(failure_outcome(<<"page load timeout">>), <<>>)
      [] event = "no_response" -> Returned(failure_outcome(<<"empty status">>), <<>>)
      [] event = "response" ->
            LET r == check_quality(expectation, page.status, page.title, page.content, page.text)
            IN Returned(r.outcome, r.tiers)

\* dataclass ProbeOutcome of proxy_manager.py: ok, reason, status; no quality
ProbeOutcome_infile(ok, reason, status) == [ok |-> ok, reason |-> reason, status |-> status]

\* page.content(): the source text of the page holds the visible text and the
\* texts of its elements
RECURSIVE page_source(_, _)
page_source(content, text) ==
    IF DOMAIN content = {} THEN text
    ELSE LET css == CHOOSE c \in DOMAIN content : TRUE
             rest == [c \in (DOMAIN content) \ {css} |-> content[c]]
         IN page_source(rest, text \o render(content[css]))

\* _validate_expectations of proxy_manager.py: the failure text, <<>> for None;
\* the title and body tests are case-sensitive `in`
validate_expectations(expectation, status, title, source) ==
    IF expectation.status # 0 /\ status # expectation.status
      THEN <<"status mismatch", StatusText(status)>>
    ELSE IF expectation.title # <<>> /\ ~str_in(expectation.title, title)
      THEN <<"title mismatch">> \o expectation.title
    ELSE IF expectation.body # <<>> /\ ~str_in(expectation.body, source)
      THEN <<"body missing">> \o expectation.body
    ELSE <<>>

\* PlaywrightProbe.check of proxy_manager.py (lines 177-201): the screenshots
\* of lines 189 and 193 are not guarded, a Playwright Error they raise is
\* caught by the outer handler, the UnboundLocalError of `page` is not
check_infile(expectation, page, event, shot) ==
    LET status == IF event = "response" THEN page.status ELSE NoStatus
        failure == validate_expectations(expectation, status, page.title,
                                         page_source(page.content, page.text))
        playwright_error == Returned(ProbeOutcome_infile(FALSE, <<"Playwright error">>, NoStatus), <<>>)
    IN CASE event = "error" -> playwright_error
         [] event = "timeout_early" -> Raised("UnboundLocalError")
         [] event = "timeout" ->
              IF shot THEN Returned(ProbeOutcome_infile(FALSE, <<"page load timeout">>, NoStatus), <<>>)
                      ELSE playwright_error
         [] event \in {"response", "no_response"} ->
              IF failure # <<>>
                THEN IF shot THEN Returned(ProbeOutcome_infile(FALSE, failure, status), <<"expect">>)
                             ELSE playwright_error
                ELSE Returned(ProbeOutcome_infile(TRUE, <<>>, status), <<"expect">>)

\* the two probes of the repository
ProbeImpls == {"modules/probe.py", "proxy_manager.py"}

ProbeInit ==
    /\ ncand = 0
    /\ dry_run = FALSE
    /\ pi = 1
    /\ pc = "pr_call"
    /\ ci = 0
    /\ rules = <<>>
    /\ prodObs = None
    /\ calls = <<>>
    /\ search = "no"
    /\ result = None
    /\ alerted = None
    /\ prodAtStart = <<>>
    /\ checked = {}
    /\ states = <<>>
    /\ order = <<>>
    /\ file = NoFile
    /\ now = 0
    /\ faults = 0
    /\ exit_code = NoExit
    /\ last_op = NoOp
    /\ input \in [impl : ProbeImpls, expect : Expectations, page : Pages,
                  event : BrowserEvents, shot : BOOLEAN]
    /\ output = None

\* a check by the probe of modules/probe.py
Check ==
    /\ pc = "pr_call" /\ input.impl = "modules/probe.py"
    /\ output' = check(input.expect, input.page, input.event, input.shot)
    /\ pc' = "pr_done"
    /\ UNCHANGED <<ncand, dry_run, pi, ci, rules, prodObs, calls, search, result, alerted,
                   prodAtStart, checked, faults, exit_code, states, order, file, now,
                   last_op, input>>

\* a check by the probe of proxy_manager.py, the one ProbeManager.run uses
CheckInFile ==
    /\ pc = "pr_call" /\ input.impl = "proxy_manager.py"
    /\ output' = check_infile(input.expect, input.page, input.event, input.shot)
    /\ pc' = "pr_done"
    /\ UNCHANGED <<ncand, dry_run, pi, ci, rules, prodObs, calls, search, result, alerted,
                   prodAtStart, checked, faults, exit_code, states, order, file, now,
                   last_op, input>>

ProbeNext == Check \/ CheckInFile

ProbeSpec == ProbeInit /\ [][ProbeNext]_vars

\* C23 (as claimed): a check in which the browser fails comes back with an
\* outcome, never an exception, and the outcome is blocked with ok = false;
\* without a response the reason is the empty-status reason and no tier is
\* evaluated, after a navigation timeout the reason is the page-load-timeout reason.
C23_FailuresAreBlocked ==
    (pc = "pr_done" /\ input.event # "response") =>
        /\ output.raised = None
        /\ ~output.outcome.ok
        /\ "quality" \in DOMAIN output.outcome
        /\ output.outcome.quality = "blocked"
        /\ input.event = "no_response" =>
              output.outcome.reason = <<"empty status">> /\ output.tiers = <<>>
        /\ input.event \in {"timeout", "timeout_early"} =>
              output.outcome.reason = <<"page load timeout">>

\* ------------------------------------------- helpers of modules/config.py
MaxLen == 2             \* longest candidates, tags and defaults list of a plan

\* dedupe_preserve_order: the loop over items with the set seen
RECURSIVE dedupe_from(_, _, _)
dedupe_from(items, seen, acc) ==
    IF items = <<>> THEN acc
    ELSE IF Head(items) \in seen THEN dedupe_from(Tail(items), seen, acc)
    ELSE dedupe_from(Tail(items), seen \cup {Head(items)}, Append(acc, Head(items)))

\* dedupe_adjacent is the variant that only drops an item equal to the one before it
RECURSIVE dedupe_adjacent_from(_, _)
dedupe_adjacent_from(items, acc) ==
    IF items = <<>> THEN acc
    ELSE IF acc # <<>> /\ acc[Len(acc)] = Head(items) THEN dedupe_adjacent_from(Tail(items), acc)
    ELSE dedupe_adjacent_from(Tail(items), Append(acc, Head(items)))
dedupe_adjacent(items) == dedupe_adjacent_from(items, <<>>)
dedupe_preserve_order(items) == dedupe_from(items, {}, <<>>)

\* OutboundPlan.priority(defaults); priority_defaults_always is the variant
\* that does not look at replace
priority_defaults_always(plan, defaults) ==
    dedupe_preserve_order(plan.candidates \o plan.tags \o defaults)
priority(plan, defaults) ==
    dedupe_preserve_order(plan.candidates \o plan.tags
                          \o (IF ~plan.replace THEN defaults ELSE <<>>))

\* outbound tags and the lists of them of a length up to n
Tags == {"a", "b", "c"}
RECURSIVE ListsUpTo(_)
ListsUpTo(n) ==
    IF n = 0 THEN {<<>>}
    ELSE ListsUpTo(n - 1) \cup {Append(l, t) : l \in {x \in ListsUpTo(n - 1) : Len(x) = n - 1}, t \in Tags}

\* quality names handed to should_send_alert: the three levels and two other names
QualityNames == Qualities \cup {"degraded", ""}

ConfigInit ==
    /\ ncand = 0
    /\ dry_run = FALSE
    /\ pi = 1
    /\ pc = "cf_call"
    /\ ci = 0
    /\ rules = <<>>
    /\ prodObs = None
    /\ calls = <<>>
    /\ search = "no"
    /\ result = None
    /\ alerted = None
    /\ prodAtStart = <<>>
    /\ checked = {}
    /\ states = <<>>
    /\ order = <<>>
    /\ file = NoFile
    /\ now = 0
    /\ faults = 0
    /\ exit_code = NoExit
    /\ last_op = NoOp
    /\ \/ input \in [fn : {"should_send_alert"}, current_quality : QualityNames,
                     alert_level : QualityNames]
       \/ input \in [fn : {"priority"}, candidates : ListsUpTo(MaxLen), tags : ListsUpTo(MaxLen),
                     defaults : ListsUpTo(MaxLen), replace : BOOLEAN]
       \/ input \in [fn : {"dedupe_preserve_order"}, items : ListsUpTo(MaxLen + 2)]
    /\ output = None

\* a call of should_send_alert
ShouldSendAlert ==
    /\ pc = "cf_call" /\ input.fn = "should_send_alert"
    /\ output' = should_send_alert(input.current_quality, input.alert_level)
    /\ pc' = "cf_done"
    /\ UNCHANGED <<ncand, dry_run, pi, ci, rules, prodObs, calls, search, result, alerted,
                   prodAtStart, checked, faults, exit_code, states, order, file, now,
                   last_op, input>>

\* a call of OutboundPlan.priority
Priority ==
    /\ pc = "cf_call" /\ input.fn = "priority"
    /\ output' = priority(input, input.defaults)
    /\ pc' = "cf_done"
    /\ UNCHANGED <<ncand, dry_run, pi, ci, rules, prodObs, calls, search, result, alerted,
                   prodAtStart, checked, faults, exit_code, states, order, file, now,
                   last_op, input>>

\* dedupe_preserve_order on a list, and on its own result
Dedupe ==
    /\ pc = "cf_call" /\ input.fn = "dedupe_preserve_order"
    /\ output' = [once |-> dedupe_preserve_order(input.items),
                  twice |-> dedupe_preserve_order(dedupe_preserve_order(input.items))]
    /\ pc' = "cf_done"
    /\ UNCHANGED <<ncand, dry_run, pi, ci, rules, prodObs, calls, search, result, alerted,
                   prodAtStart, checked, faults, exit_code, states, order, file, now,
                   last_op, input>>

ConfigNext == ShouldSendAlert \/ Priority \/ Dedupe

ConfigSpec == ConfigInit /\ [][ConfigNext]_vars

\* ordinal of a quality level: optimal 0, suboptimal 1, blocked 2
Ordinal(q) == IF q = "optimal" THEN 0 ELSE IF q = "suboptimal" THEN 1 ELSE 2

\* C24: for the nine pairs (q, t) of quality levels should_send_alert(q, t)
\* is true iff the ordinal of q is at least the ordinal of t.
C24_AlertIffOrdinal ==
    (/\ pc = "cf_done" /\ input.fn = "should_send_alert"
     /\ input.current_quality \in Qualities /\ input.alert_level \in Qualities) =>
        (output <=> Ordinal(input.current_quality) >= Ordinal(input.alert_level))

\* suboptimal against the threshold blocked: no alert
C24_Witness ==
    /\ pc = "cf_done" /\ input.fn = "should_send_alert"
    /\ input.current_quality = "suboptimal" /\ input.alert_level = "blocked"
    /\ output = FALSE

\* C25: an unknown current quality counts as optimal (0) and an unknown
\* threshold as suboptimal (1): should_send_alert(unknown, t) is
\* should_send_alert(optimal, t) and should_send_alert(q, unknown) is
\* should_send_alert(q, suboptimal).
C25_UnknownNames ==
    (pc = "cf_done" /\ input.fn = "should_send_alert") =>
        LET q == input.current_quality
            t == input.alert_level
        IN /\ q \notin Qualities => output = should_send_alert("optimal", t)
           /\ t \notin Qualities => output = should_send_alert(q, "suboptimal")
           /\ (q \notin Qualities /\ t \in Qualities) => (output <=> 0 >= Ordinal(t))
           /\ (q \in Qualities /\ t \notin Qualities) => (output <=> Ordinal(q) >= 1)
           /\ (q \notin Qualities /\ t \notin Qualities) => output = FALSE

\* an unknown current quality against the threshold suboptimal: no alert,
\* as for optimal
C25_Witness ==
    /\ pc = "cf_done" /\ input.fn = "should_send_alert"
    /\ input.current_quality = "degraded" /\ input.alert_level = "suboptimal"
    /\ output = FALSE

\* reading lists
Elems(l) == {l[i] : i \in 1..Len(l)}
FirstPos(l, x) == CHOOSE i \in 1..Len(l) : l[i] = x /\ \A j \in 1..(i - 1) : l[j] # x
NoDuplicates(l) == \A i, j \in 1..Len(l) : i # j => l[i] # l[j]

\* C26: priority(defaults) is candidates, then tags, then (unless replace) the
\* defaults, with every element kept at its first occurrence only: it has no
\* duplicates, the elements of that concatenation, and them in the order of
\* their first occurrences; [a,b], [a], [c] without replace gives [a,b,c]; with
\* replace a default is in the result only if it is a candidate or a tag.
C26_PriorityOrder ==
    (pc = "cf_done" /\ input.fn = "priority") =>
        LET all == input.candidates \o input.tags
                   \o (IF input.replace THEN <<>> ELSE input.defaults)
        IN /\ NoDuplicates(output)
           /\ Elems(output) = Elems(all)
           /\ \A i, j \in 1..Len(output) :
                i < j => FirstPos(all, output[i]) < FirstPos(all, output[j])
           /\ (/\ input.candidates = <<"a", "b">> /\ input.tags = <<"a">>
               /\ input.defaults = <<"c">> /\ ~input.replace) => output = <<"a", "b", "c">>
           /\ input.replace =>
                \A d \in Elems(input.defaults) :
                    d \in Elems(output) => d \in Elems(input.candidates) \cup Elems(input.tags)

\* candidates [a,b], tags [a], defaults [c], replace false
C26_Witness ==
    /\ pc = "cf_done" /\ input.fn = "priority"
    /\ input.candidates = <<"a", "b">> /\ input.tags = <<"a">>
    /\ input.defaults = <<"c">> /\ ~input.replace
    /\ output = <<"a", "b", "c">>

\* C27: the list dedupe_preserve_order returns has no duplicates and exactly
\* the elements of its input, and dedupe_preserve_order returns it unchanged.
C27_DedupeIdempotent ==
    (pc = "cf_done" /\ input.fn = "dedupe_preserve_order") =>
        /\ NoDuplicates(output.once)
        /\ Elems(output.once) = Elems(input.items)
        /\ output.twice = output.once

\* [a,b,a,c] resolves to [a,b,c]
C27_Witness ==
    /\ pc = "cf_done" /\ input.fn = "dedupe_preserve_order"
    /\ input.items = <<"a", "b", "a", "c">>
    /\ output.once = <<"a", "b", "c">>
    /\ output.twice = <<"a", "b", "c">>

\* ------------------------------------------------- notification failures
\* C28: a notification that is not delivered (status other than 200,
\* transport exception, aiohttp missing, notifier disabled) is not raised out
\* of send_alert: the step of the alert leaves the search result and the
\* installed routing rules as they are and ends the probe's cycle, from where
\* the loop goes on to the next probe.
C28_AlertFailureContained ==
    [][pc = "alert" =>
        /\ pc' = "cycle_end"
        /\ UNCHANGED <<rules, result, search, checked, pi, exit_code>>]_vars

\* a switch whose alert met a transport exception, with a probe still to come
C28_Witness ==
    /\ pc = "cycle_end" /\ pi < NumProbes
    /\ result # None
    /\ calls # <<>>
    /\ calls[Len(calls)].op = "alert" /\ calls[Len(calls)].scope = "exception"
    /\ \E i \in 1..Len(rules) : IsProdRuleOf(rules[i], name)

\* ------------------------------------------------------ order of the probes
\* rules of a table that an earlier table did not hold
NewRules(before, after) ==
    {after[i] : i \in 1..Len(after)} \ {before[i] : i \in 1..Len(before)}

Outbounds == {OutboundNames[i] : i \in 1..Len(OutboundNames)}

\* C29: probes are processed one after the other: the run moves to the next
\* probe only from the end of the cycle of the current one, whose production
\* check is then done, it moves to the probe next in the list, no step in
\* between completes a check of, or adds a rule of, any probe but the
\* current one, and no probe after the current one has been checked.
C29_ProbesSequential ==
    /\ [](checked \subseteq 1..pi)
    /\ [][/\ pi' # pi =>
               /\ pc = "cycle_end" /\ pc' = "check_prod"
               /\ pi' = pi + 1
               /\ pi \in checked /\ pi' \notin checked
          /\ checked' # checked => (pi' = pi /\ checked' = checked \cup {pi})
          /\ \A r \in NewRules(rules, rules') :
                /\ pi' = pi
                /\ r \in {test_rule(name, ob) : ob \in Outbounds}
                         \cup {new_rule(name, ob) : ob \in Outbounds}]_vars

\* the second probe has a candidate under test after the first probe's search
\* promoted an outbound
C29_Witness ==
    /\ pi = 2 /\ pc = "s_probe"
    /\ \E i \in 1..Len(rules) : rules[i].tag = prod_tag(ProbeNames[1])
    /\ \E i \in 1..Len(rules) : rules[i].ruleTag = test_tag(ProbeNames[2])

\* ------------------------------------------------ cleanup before promotion
\* C30 (as claimed): within one search the test rule is removed before the
\* promotion starts: every removal of the old production rule and every
\* installation of the new one comes after a removal of the test rule that
\* followed the probe of the selected candidate.
C30_TestRuleRemovedBeforePromotion ==
    \A k \in 1..Len(calls) :
        (calls[k].op \in {"rm", "add"} /\ calls[k].scope = "prod") =>
            /\ Len(TestProbes) > 0
            /\ \E m \in (LastTestProbe + 1)..(k - 1) :
                    calls[m].op = "rm" /\ calls[m].scope = "test"

\* ------------------------------------------------- the test tag namespace
\* rules installed under the test tag of probe n
TestRulesOf(n) == SelectSeq(rules, LAMBDA r : r.ruleTag = test_tag(n))

\* C31 (as claimed): at every point of a search at most one rule is installed
\* under the probe's test tag, and when a candidate is probed through the test
\* path the only test rule of the probe is the one bound to that candidate,
\* also after a removal whose error was swallowed.
C31_OneTestRule ==
    (~dry_run /\ pc \in {"s_remove", "s_add", "s_probe", "p_remove", "p_add",
                         "s_cleanup_found", "s_cleanup_exhausted"}) =>
        /\ Len(TestRulesOf(name)) <= 1
        /\ pc = "s_probe" => TestRulesOf(name) = <<test_rule(name, Candidates[ci])>>

\* ------------------------------------------------ control-plane instances
\* the XrayAPIClient a rule of a scope is installed and removed through:
\* ProbeManager holds one client, self._xray, built from config.xray (one api
\* address), and uses it for test rules and production rules alike
xray_client(scope) == "config.xray"

\* calls of the current cycle received by the instance that serves production rules
ProdInstanceCalls ==
    {k \in 1..Len(calls) :
        calls[k].op \in {"rm", "add"} /\ xray_client(calls[k].scope) = xray_client("prod")}

\* C32 (as claimed): test rules go through the test control-plane instance,
\* production rules through the production instance, and the two are
\* distinct: the production instance receives only the calls of a promotion,
\* none of the test-rule calls of the search before it.
C32_SeparateInstances ==
    \A k \in ProdInstanceCalls : calls[k].scope = "prod"

\* -------------------------------------- repeated runs against the cooldown
\* A caller of StateManager across runs: every MaxInterval-bounded interval a
\* run asks should_skip_suboptimal for a probe it observes suboptimal and
\* calls update(name, "suboptimal") either way (the refresh of a skipped run,
\* or the result of a search that found nothing better). The clock of this
\* specification counts from the last update of the probe: update stores
\* datetime.now() and should_skip_suboptimal reads only the difference to it.
MaxInterval == 3        \* longest interval between two runs, in ticks

\* the variables of ProbeManager.run, which no StateManager call assigns
cyclevars == <<ncand, dry_run, pi, ci, rules, prodObs, calls, search, result, alerted,
               prodAtStart, checked, faults, exit_code>>

RunsInit ==
    /\ ncand = 0
    /\ dry_run = FALSE
    /\ pi = 1
    /\ pc = "cd_run"
    /\ ci = 0
    /\ rules = <<>>
    /\ prodObs = None
    /\ calls = <<>>
    /\ search = "no"
    /\ result = None
    /\ alerted = None
    /\ prodAtStart = <<>>
    /\ checked = {}
    /\ states = <<>>
    /\ order = <<>>
    /\ file = NoFile
    /\ now = 0
    /\ faults = 0
    /\ exit_code = NoExit
    /\ last_op = NoOp
    /\ input \in [probe_name : StateNames, interval : 1..MaxInterval, skip_hours : 1..2]
    /\ output = None

\* StateManager.update(probe_name, "suboptimal") at clock value clock, with its save()
update_suboptimal(clock, w) ==
    LET rec == ProbeState(input.probe_name, "suboptimal", None, isoformat(clock), None)
        tbl == dict_set(states, input.probe_name, rec)
        keys == dict_keys(order, input.probe_name)
    IN /\ states' = tbl
       /\ order' = keys
       /\ file' = save(tbl, keys, file, w)

\* the time between two runs passes
Sleep ==
    /\ pc = "cd_sleep"
    /\ now < input.interval
    /\ now' = now + 1
    /\ pc' = IF now + 1 = input.interval THEN "cd_run" ELSE "cd_sleep"
    /\ UNCHANGED <<cyclevars, states, order, file, last_op, input, output>>

\* a run inside the cooldown: should_skip_suboptimal is true, the state is
\* persisted again (fresh timestamp) and no search is made
RunSkipped ==
    /\ pc = "cd_run"
    /\ should_skip_suboptimal(states, now, input.probe_name, input.skip_hours)
    /\ \E w \in WriteOutcomes : update_suboptimal(0, w)
    /\ now' = 0
    /\ output' = "skipped"
    /\ pc' = "cd_sleep"
    /\ UNCHANGED <<cyclevars, last_op, input>>

\* a run outside the cooldown: should_skip_suboptimal is false, the candidates
\* are searched again and the outcome is persisted
RunSearched ==
    /\ pc = "cd_run"
    /\ ~should_skip_suboptimal(states, now, input.probe_name, input.skip_hours)
    /\ \E w \in WriteOutcomes : update_suboptimal(0, w)
    /\ now' = 0
    /\ output' = "searched"
    /\ pc' = "cd_sleep"
    /\ UNCHANGED <<cyclevars, last_op, input>>

RunsNext == Sleep \/ RunSkipped \/ RunSearched

\* the runs keep coming
RunsSpec == RunsInit /\ [][RunsNext]_vars /\ WF_vars(RunsNext)

Tested(ob) ==
    \E k \in 1..(Len(calls) - 1) :
        /\ calls[k].op = "add" /\ calls[k].scope = "test" /\ calls[k].cand = ob /\ calls[k].ok
        /\ calls[k + 1].op = "probe" /\ calls[k + 1].scope = "test"
        /\ calls[k + 1].cand = ob /\ calls[k + 1].ok

\* candidates the current search promoted or returned
Promoted ==
    {calls[k].cand : k \in {m \in 1..Len(calls) : calls[m].op = "add" /\ calls[m].scope = "prod"}}
        \cup (IF result # None THEN {result} ELSE {})

\* C35: a candidate is promoted or returned only if in this search its test
\* rule was installed successfully and the probe through the test path that
\* followed was accepted, the rule being in the table during the probe and
\* still at the promotion; a candidate whose installation failed or that was
\* not probed is not promoted.
C35_PromotedWasTested ==
    /\ \A ob \in Promoted : Tested(ob)
    /\ \A j \in 1..Len(cands) :
          (InstallFailed(cands[j]) \/ ~Probed(cands[j])) => cands[j] \notin Promoted
    /\ (~dry_run /\ pc \in {"s_probe", "p_remove", "p_add"}) =>
          \E i \in 1..Len(rules) : rules[i] = test_rule(name, Candidates[ci])

\* the installation of A failed, B was installed, probed and promoted
C35_Witness ==
    /\ ~dry_run /\ search = "returned" /\ result = "B"
    /\ InstallFailed("A") /\ ~Probed("A")
    /\ Tested("B")
    /\ \E i \in 1..Len(rules) : rules[i] = new_rule(name, "B")

\* --------------------------------------------- promotion is not atomic
\* C36 (as claimed): a probe that had a production rule when its cycle began
\* has one when _promote_outbound has finished, by return or by exception: the
\* new rule, or the old one still in place.
C36_PromotionKeepsProdRule ==
    (/\ ~dry_run
     /\ \E i \in 1..Len(prodAtStart) : IsProdRuleOf(prodAtStart[i], name)
     /\ pc \in {"s_cleanup_found", "alert", "cycle_end", "aborted"}) =>
        Len(ProdRulesOf(name)) > 0

\* ------------------------------------------------------------ termination
\* installations of test rules of the current search, in call order
TestInstalls == SelectSeq(calls, LAMBDA c : c.op = "add" /\ c.scope = "test")

\* the candidates of a sequence of calls come in strictly ascending list position
InListOrder(cs) ==
    \A k, m \in 1..Len(cs) : k < m => PosOf(cs[k].cand) < PosOf(cs[m].cand)

\* position of the search in its loop: the candidate index, then the step
\* within the iteration
Progress ==
    8 * ci + (CASE pc = "s_remove" -> 0
                [] pc = "s_add" -> 1
                [] pc = "s_probe" -> 2
                [] pc = "p_remove" -> 3
                [] pc = "p_add" -> 4
                [] pc = "s_cleanup_found" -> 5
                [] OTHER -> 6)

C37_Bounded ==
    /\ InListOrder(TestInstalls) /\ InListOrder(TestProbes)
    /\ \A k \in 1..Len(TestInstalls) : PosOf(TestInstalls[k].cand) > 0
    /\ Len(TestProbes) <= Len(TestInstalls)
    /\ Len(TestInstalls) <= Len(cands)
    /\ search = "running" => Progress <= 8 * ncand + 6
    /\ (ncand = 0 /\ search # "no") =>
          /\ search = "returned" /\ result = None
          /\ \A k \in 1..Len(calls) :
                calls[k].op \notin {"rm", "add"} /\ ~(calls[k].op = "probe" /\ calls[k].scope = "test")

\* C37: every search terminates: the candidates are taken at most once each
\* and in list order, with at most one probe per candidate and no more probes
\* than the list is long; every step of a running search moves it forward in
\* its loop, whose positions are bounded by the length of the list, or ends
\* it; with an empty list the search returns none without a control-plane
\* call and without a probe.
C37_SearchTerminates ==
    /\ []C37_Bounded
    /\ [][search = "running" => (Progress' > Progress \/ search' # "running")]_vars

\* two candidates, both probed and refused: two probes, then none is returned
C37_Witness ==
    /\ search = "returned" /\ result = None /\ ncand = 2
    /\ Len(TestProbes) = 2
    /\ TestProbes[1].cand = "A" /\ TestProbes[2].cand = "B"

\* ------------------------------------------- consistency of ProbeOutcome
\* C38: every ProbeOutcome PlaywrightProbe.check of modules/probe.py returns
\* has ok true iff its quality is optimal or suboptimal and ok false iff its
\* quality is blocked; none has ok false with the default quality optimal.
C38_OutcomeConsistent ==
    (pc = "pr_done" /\ input.impl = "modules/probe.py" /\ output.raised = None) =>
        LET o == output.outcome
        IN /\ o.quality \in Qualities
           /\ o.ok <=> o.quality \in {"optimal", "suboptimal"}
           /\ ~o.ok <=> o.quality = "blocked"
           /\ ~(~o.ok /\ o.quality = "optimal")

\* a navigation timeout: ok false and blocked
C38_Witness ==
    /\ pc = "pr_done" /\ input.impl = "modules/probe.py"
    /\ input.event = "timeout"
    /\ output.raised = None
    /\ ~output.outcome.ok /\ output.outcome.quality = "blocked"

\* ------------------------------------------- the alert gate is monotone
\* C39: should_send_alert(blocked, t) is true for every threshold name t,
\* recognised or not, and when should_send_alert(q, t) is true it is true for
\* every quality more severe than q.
C39_AlertMonotone ==
    (pc = "cf_done" /\ input.fn = "should_send_alert") =>
        LET q == input.current_quality
            t == input.alert_level
        IN /\ q = "blocked" => output
           /\ should_send_alert("blocked", t)
           /\ (q \in Qualities /\ output) =>
                \A q2 \in Qualities : Ordinal(q2) > Ordinal(q) => should_send_alert(q2, t)
           /\ (q \notin Qualities /\ output) =>
                \A q2 \in Qualities : should_send_alert(q2, t)

\* blocked against a threshold name that is not a level
C39_Witness ==
    /\ pc = "cf_done" /\ input.fn = "should_send_alert"
    /\ input.current_quality = "blocked" /\ input.alert_level = "degraded"
    /\ output = TRUE
====
